---- MODULE Spec2Model ----
(***************************************************************************)
(* Model of the pythiags video recorder                                    *)
(*   src/src/pythiags/recorder/recorder.py    (VideoRecorder)              *)
(*   src/src/pythiags/recorder/record_bin.py  (RecordBin)                  *)
(*   src/src/pythiags/recorder/ring_buffer.py (RingBuffer)                 *)
(*   src/src/pythiags/background.py           (PostponedBackgroundThread)  *)
(*                                                                         *)
(* Time is discrete.  One tick is one frame period of the tap: the tap     *)
(* delivers one frame per tick, the frame delivered at tick t is the       *)
(* integer t.  Computation takes no model time: the clock advances only    *)
(* when every thread is sleeping, blocked, or waiting for the media        *)
(* pipeline (see Urgent).  What the media pipeline does on its own         *)
(* streaming threads (first buffer at the ring buffer, first buffer and    *)
(* end-of-stream at the file sink) may take any amount of time.            *)
(*                                                                         *)
(* The code uses no lock.  Every action below is one stretch of code       *)
(* between two accesses to shared fields that another thread can           *)
(* interleave with; the threads of the program are the caller threads of   *)
(* record(), the run_later threads (timers, drain loops, cleanup and       *)
(* completion callbacks) and the pipeline's streaming threads.             *)
(***************************************************************************)
EXTENDS Integers, Sequences, FiniteSets, TLC

\* ------------------------------------------------------------------ bounds
\* window_size_sec, in ticks
W == 1
\* last tick of the clock
MaxTime == 5
\* number of record() calls made by the application
MaxTriggers == 2
\* number of record() calls, and last tick of the clock, of a burst of calls
\* made right after construction
MaxBurst == 3
BurstTime == 2
\* nested re-dispatches of one deferred record() call that are told apart
MaxDepth == 1
\* max_delay_sec of record(), in ticks
MaxDelay == 1
\* largest window_size_sec, framerate numerator and framerate denominator
\* of the taps the ring buffer is bound to on its own
MaxW == 2
MaxNum == 4
MaxDen == 3
\* most calls of RingBuffer.bind the application makes on its own
MaxRebind == 1

Callers == {"c1", "c2"}
Before(c, d) == c = "c1" /\ d = "c2"
\* every call starts at most one timer and builds at most one branch
MaxIds == IF MaxBurst > MaxTriggers THEN MaxBurst ELSE MaxTriggers
TimerIds == 1..MaxIds
BinIds == 1..MaxIds
TrigIds == 1..MaxIds

\* --------------------------------------------------------- recorder states
\* States is an enum.IntFlag: a value is a set of flags, DETTACHED = 0 is
\* the empty set, `a & ~b` is set difference, `a | b` is union and
\* `a in b` holds when every flag of a is a flag of b.
DETTACHED == {}
BUFFERING == {"BUFFERING"}
STARTING == {"STARTING"}
RECORDING == {"RECORDING"}
FINISHING == {"FINISHING"}
States == {DETTACHED, BUFFERING, STARTING, RECORDING, FINISHING}
Flags == {"BUFFERING", "STARTING", "RECORDING", "FINISHING"}

VARIABLES
    now,                    \* the clock, in ticks
    tap,                    \* window_size_sec and the tap's caps framerate
    state,                  \* VideoRecorder._state
    stop_recording_timer,   \* VideoRecorder._stop_recording_timer, 0 = None
    deque,                  \* the collections.deque shared by ring and bin
    maxlen,                 \* its maxlen, 0 while VideoRecorder._deque is None
    framerate,              \* VideoRecorder.framerate, 0 while unset
    sampling,               \* appsink "new-sample" is connected
    pipeline,               \* RecordBin.pipeline is set
    record_bin,             \* RecordBin.record_bin, 0 = unset or None
    pushing_buffers,        \* RecordBin.pushing_buffers
    bins,                   \* the output branches the program has built
    timers,                 \* the run_later threads of __on_window_timeout
    drains,                 \* the run_later threads of __emit_buffers_bg
    cleanups,               \* pending run_later(self.cleanup, 0) threads
    eoscbs,                 \* pending run_later(self.on_eos, 0, location)
    pc,                     \* where each caller thread is
    stack,                  \* t0 of each active record() frame of a caller
    kind,                   \* handler a caller is in: "buffering" / "rearm"
    cur,                    \* trigger a caller is serving (history)
    trig,                   \* history: what became of each record() call
    seg,                    \* history: trigger and eos times of each branch
    done,                   \* history: locations handed to _on_recordbin_eos
    on_video_finished,      \* VideoRecorder.on_video_finished
    called,                 \* history: callbacks started, with their argument
    exit_code,              \* the process's exit status, 0 while it runs
    bind_raised,            \* history: "Already bound!" raised by RingBuffer.bind
    swallowed,              \* history: where CancelNotInWaiting was dropped
    ringbuffer_bin          \* RingBuffer.ringbuffer_bin, its release thread,
                            \* and (history) the calls of RingBuffer.on_eos

vars == <<now, tap, state, stop_recording_timer, deque, maxlen, framerate,
          sampling, pipeline, record_bin, pushing_buffers, bins, timers,
          drains, cleanups, eoscbs, pc, stack, kind, cur, trig,
          seg, done, on_video_finished, called, exit_code, bind_raised,
          swallowed, ringbuffer_bin>>

recorderVars == <<state, stop_recording_timer>>
ringVars == <<tap, deque, maxlen, framerate, sampling>>
binVars == <<pipeline, record_bin, pushing_buffers, bins>>
threadVars == <<timers, drains, cleanups, eoscbs>>
callerVars == <<pc, stack, kind, cur>>
histVars == <<trig, seg, done>>
cbVars == <<on_video_finished, called>>
procVars == <<exit_code, bind_raised, swallowed>>

\* values of VideoRecorder.on_video_finished besides a trigger's callback:
\* the attribute does not exist yet (__init__ does not create it), or is None
Unset == -1
None == 0

NoBin == [st |-> "none", first |-> FALSE, eos |-> "no", frames |-> <<>>]
NoTimer == [st |-> "none", cancelled |-> FALSE, due |-> 0]
NoDrain == [st |-> "none", wake |-> 0, buf |-> 0]
NoTrig == [t |-> 0, at |-> {}, how |-> "none", bin |-> 0, armed |-> -1,
           ret |-> 0, cb |-> FALSE]
NoSeg == [first |-> 0, last |-> 0, eosAt |-> -1, full |-> FALSE, eos |-> 0]

\* the ingest branch RingBuffer.bind adds to the pipeline: in the pipeline,
\* no release thread, on_eos not called
IngestBin == [st |-> "attached", release |-> "none", on_eos |-> 0]

\* the recorder's tap: window_size_sec is W seconds and the caps framerate
\* 1/1 frames per second, so that a second is a tick
Tap == [w |-> W, num |-> 1, den |-> 1]

\* the taps a ring buffer is bound to on its own: window_size_sec = w and
\* caps framerate = num/den, among them w = 2 s at 30/1 frames per second
ScenarioA == [w |-> 2, num |-> 30, den |-> 1]
Taps == [w : 1..MaxW, num : 1..MaxNum, den : 1..MaxDen] \cup {ScenarioA}

\* taps whose negotiated caps carry no framerate field
BadTaps == {[w |-> w, num |-> 0, den |-> 0] : w \in 1..MaxW}

\* struct.get_fraction("framerate") on the caps of tap t: success, numerator
\* and denominator
get_fraction(t) == [success |-> t.den # 0, num |-> t.num, den |-> t.den]

\* VideoRecorder.__init__ and what RingBuffer and RecordBin hold before the
\* first buffer
Constructed ==
    /\ now = 0
    /\ state = DETTACHED
    /\ stop_recording_timer = 0
    /\ deque = <<>>
    /\ maxlen = 0
    /\ framerate = 0
    /\ sampling = FALSE
    /\ pipeline = FALSE
    /\ record_bin = 0
    /\ pushing_buffers = FALSE
    /\ bins = [b \in BinIds |-> NoBin]
    /\ timers = [i \in TimerIds |-> NoTimer]
    /\ drains = [b \in BinIds |-> NoDrain]
    /\ cleanups = 0
    /\ eoscbs = <<>>
    /\ pc = [c \in Callers |-> "idle"]
    /\ stack = [c \in Callers |-> <<>>]
    /\ kind = [c \in Callers |-> "none"]
    /\ cur = [c \in Callers |-> 0]
    /\ trig = [k \in TrigIds |-> NoTrig]
    /\ seg = [b \in BinIds |-> NoSeg]
    /\ done = <<>>
    /\ on_video_finished = Unset
    /\ called = <<>>
    /\ exit_code = 0
    /\ bind_raised = 0
    /\ swallowed = {}
    /\ ringbuffer_bin = IngestBin

Init == tap = Tap /\ Constructed

\* a recorder constructed on any of the taps
InitRing == tap \in Taps \cup BadTaps /\ Constructed

\* ------------------------------------------------------------ helpers
Max(a, b) == IF a >= b THEN a ELSE b

\* a plausible slip: a plain list, which never drops an item
append_unbounded(q, m, x) == Append(q, x)

\* collections.deque(maxlen=m).append(x): a full deque drops its oldest item
append(q, m, x) ==
    IF Len(q) >= m THEN Append(Tail(q), x) ELSE Append(q, x)

\* a plausible slip: the product truncated instead of rounded up
rinbugger_len_floor(w, num, den) == (w * num) \div den

\* math.ceil(window_size_sec * framerate), the tap's framerate being the
\* fraction num/den
rinbugger_len(w, num, den) == (w * num + den - 1) \div den

\* collections.deque.popleft()
popleft(q) == Tail(q)

\* run_later(self.__on_window_timeout, 2 * window_size_sec): the thread is
\* started; its run() does `state |= WAITING` and sleeps for the delay
NewTimer == [st |-> "waiting", cancelled |-> FALSE, due |-> now + 2 * W]

\* A thread started in this very instant may not have run its first
\* statement yet: its state is then still IDLE.  Nothing but cancel() reads
\* that state, so whether it already holds WAITING is decided when cancel()
\* reads it.
MaybeIdle(tm, i) == tm[i].st = "waiting" /\ tm[i].due = now + 2 * W

\* PostponedBackgroundThread.cancel on timer i of tm: only a thread whose
\* state holds WAITING takes the cancellation; on any other thread it raises
\* CancelNotInWaiting and changes nothing.  `idle` says that a thread
\* started in this instant is found before its first statement.
CanCancel(tm, i, idle) ==
    /\ tm[i].st \in {"waiting", "woke"}
    /\ ~(idle /\ MaybeIdle(tm, i))

\* a cancel() without the test of WAITING
cancel_unchecked(tm, i, idle) == [tm EXCEPT ![i].cancelled = TRUE]
cancel(tm, i, idle) ==
    IF CanCancel(tm, i, idle) THEN [tm EXCEPT ![i].cancelled = TRUE] ELSE tm

\* the stop_recording_timer setter: cancel the timer held so far, if any,
\* swallowing CancelNotInWaiting; the caller then stores the new value
SetterCancel(tm, old, idle) == IF old = 0 THEN tm ELSE cancel(tm, old, idle)

\* ... and its `except CancelNotInWaiting: pass` is run
SetterRaises(tm, old, idle) == old # 0 /\ ~CanCancel(tm, old, idle)

\* what the setter does with a CancelNotInWaiting raised in operation op:
\* nothing, neither a log record nor an error for the caller
except_pass(raised, op) ==
    swallowed' = IF raised THEN swallowed \cup {op} ELSE swallowed

ntimers == Cardinality({i \in TimerIds : timers[i].st # "none"})
nfiles == Cardinality({b \in BinIds : bins[b].st # "none"})
ntrig == Cardinality({k \in TrigIds : trig[k].how # "none"})

\* RecordBin.filesink_location: raises while record_bin is unset or None
HasLocation == record_bin # 0

\* the frame of record() at the top of caller c's stack ends, by returning
\* `res` (a location) or by raising (res = -1).  A nested frame runs in a
\* run_later thread its caller joins: whatever its end, the caller's frame
\* goes on to its own polling loop.  The outermost frame's end is what the
\* application sees.
Unwind(c, res) ==
    IF Len(stack[c]) > 1
    THEN /\ stack' = [stack EXCEPT ![c] = Tail(@)]
         /\ pc' = [pc EXCEPT ![c] = "poll"]
         /\ UNCHANGED <<cur, trig>>
    ELSE /\ stack' = [stack EXCEPT ![c] = <<>>]
         /\ pc' = [pc EXCEPT ![c] = "idle"]
         /\ trig' = [trig EXCEPT ![cur[c]].ret = res]
         /\ cur' = [cur EXCEPT ![c] = 0]

\* ------------------------------------------------------ tap and ring buffer
\* the probe that runs RingBuffer.__initialize_deque is on the appsink pad:
\* it is installed by the bind of VideoRecorder.__init__ and removed by its
\* first run, which either creates the deque or reports the failure
ProbeArmed ==
    maxlen = 0 /\ exit_code = 0 /\ ringbuffer_bin.st = "attached"

\* RingBuffer.__initialize_deque, on the first buffer of the tap, reads the
\* framerate of the caps and calls
\* VideoRecorder._on_ringbuffer_bound: the deque is created and the state
\* set to BUFFERING ...
OnRingbufferBound ==
    /\ ProbeArmed
    /\ get_fraction(tap).success
    /\ state = DETTACHED
    /\ maxlen' = rinbugger_len(tap.w, tap.num, tap.den)
    /\ deque' = <<>>
    /\ state' = BUFFERING
    /\ UNCHANGED <<procVars, cbVars, now, ringbuffer_bin, tap, stop_recording_timer, framerate, sampling,
                   binVars, threadVars, callerVars, histVars>>

\* signal_handler's sys.exit(44)
ExitCode == 44

\* VideoRecorder._on_ringbuffer_bind_fail: log the reason and
\* exit_from_thread(), which signals the process; the handler exits it
on_bind_failure == exit_code' = ExitCode

\* a plausible slip: the failure is reported and on_bind_sucess called all
\* the same
InitializeDequeFailBound ==
    /\ ProbeArmed
    /\ ~get_fraction(tap).success
    /\ on_bind_failure
    /\ state' = BUFFERING
    /\ UNCHANGED <<bind_raised, swallowed, cbVars, now, ringbuffer_bin, tap, stop_recording_timer, deque,
                   maxlen, framerate, sampling, binVars, threadVars,
                   callerVars, histVars>>

\* RingBuffer.__initialize_deque on caps without a framerate: RuntimeError,
\* caught, on_bind_failure(reason); on_bind_sucess is not called and the
\* probe is removed
InitializeDequeFail ==
    /\ ProbeArmed
    /\ ~get_fraction(tap).success
    /\ on_bind_failure
    /\ UNCHANGED <<bind_raised, swallowed, cbVars, now, ringbuffer_bin, recorderVars, ringVars, binVars,
                   threadVars, callerVars, histVars>>

\* RingBuffer.pipeline, set by the bind of VideoRecorder.__init__ and never
\* cleared
RingPipeline == TRUE

\* the application calls recorder.ring_buffer.bind(...) once more:
\* `if self.pipeline: raise ValueError("Already bound!")`
RingBufferBind ==
    /\ bind_raised < MaxRebind
    /\ RingPipeline
    /\ bind_raised' = bind_raised + 1
    /\ UNCHANGED <<exit_code, swallowed, cbVars, now, ringbuffer_bin, recorderVars, ringVars, binVars,
                   threadVars, callerVars, histVars>>

\* RingBuffer.__on_new_sample: the tap's delivery thread appends a frame
OnNewSample(x) ==
    deque' = append(deque, maxlen, x)

\* the delivery thread is inside __initialize_deque, past on_bind_sucess
Initializing ==
    maxlen # 0 /\ ~sampling /\ ringbuffer_bin.st = "attached"

\* ... and only then is VideoRecorder.framerate assigned, the deque handed
\* back to the RingBuffer and "new-sample" connected; the buffer that ran
\* the probe is the first sample
InitializeDequeDone ==
    /\ Initializing
    /\ framerate' = 1
    /\ sampling' = TRUE
    /\ OnNewSample(now)
    /\ UNCHANGED <<procVars, cbVars, now, ringbuffer_bin, tap, recorderVars, maxlen, binVars, threadVars,
                   callerVars, histVars>>

\* ---------------------------------------------------------------- record()
Deferring(st) == st = DETTACHED \/ st = FINISHING

\* record_bg(*args, **kwargs) ends in callback(*args, **kwargs): a state that
\* is no key of on_record_dispatch raises NotImplementedError, and
\* _on_recording_record(self), which takes no argument, raises TypeError
\* when the call carries a callback
Raises(st, cb) == st \notin States \/ (st = RECORDING /\ cb)

\* record() sets t0 and calls record_bg(), which reads the state once and
\* picks the handler from on_record_dispatch.  A state that is no key of the
\* table (a combination of flags) raises NotImplementedError.
Enter(c, after, cb) ==
    IF ~Raises(state, cb)
    THEN /\ stack' = [stack EXCEPT ![c] = <<now>> \o after]
         /\ pc' = [pc EXCEPT ![c] =
                IF Deferring(state) THEN "defer" ELSE "reset"]
         /\ kind' = [kind EXCEPT ![c] =
                IF state = BUFFERING THEN "buffering"
                ELSE IF Deferring(state) THEN "none" ELSE "rearm"]
    ELSE /\ stack' = [stack EXCEPT ![c] = after]
         /\ pc' = [pc EXCEPT ![c] = IF after = <<>> THEN "idle" ELSE "poll"]
         /\ kind' = [kind EXCEPT ![c] = "none"]

\* the application calls record(), with no argument, on thread c.  Idle
\* threads are alike: the call is made on the first idle one.
record(c, cb, most) ==
    /\ pc[c] = "idle"
    /\ \A d \in Callers : pc[d] = "idle" => ~Before(d, c)
    /\ ntrig < most
    /\ Enter(c, <<>>, cb)
    /\ LET k == ntrig + 1 IN
       /\ trig' = [trig EXCEPT ![k] =
              [NoTrig EXCEPT !.t = now, !.at = state, !.how = "pending",
                             !.cb = cb,
                             !.ret = IF Raises(state, cb) THEN -1 ELSE 0]]
       /\ cur' = [cur EXCEPT ![c] = IF Raises(state, cb) THEN 0 ELSE k]
    /\ UNCHANGED <<procVars, cbVars, now, ringbuffer_bin, recorderVars, ringVars, binVars, threadVars,
                   seg, done>>

Record(c) == record(c, FALSE, MaxTriggers)

\* the calls of a burst
RecordBurst(c) == record(c, FALSE, MaxBurst)

\* the application calls record(on_video_finished), every call with a
\* callback of its own
RecordWithCallback(c) == record(c, TRUE, MaxTriggers)

\* _on_dettached_record / _on_finishing_record: run_later(self.record, 1/100)
\* and join: record() runs again in a thread of its own.  Re-dispatches that
\* find the recorder still deferring are told apart up to MaxDepth.
OnDeferredRecord(c) ==
    /\ pc[c] = "defer"
    /\ Deferring(state) => Len(stack[c]) <= MaxDepth
    /\ Enter(c, stack[c], trig[cur[c]].cb)
    /\ UNCHANGED <<procVars, cbVars, now, ringbuffer_bin, recorderVars, ringVars, binVars, threadVars,
                   cur, histVars>>

\* reset_stop_recording_timer: start a new timer thread; the setter cancels
\* the timer the field holds and stores the new one
reset_stop_recording_timer ==
    LET n == ntimers + 1 IN
    /\ \E idle \in BOOLEAN :
          /\ timers' = [SetterCancel(timers, stop_recording_timer, idle)
                          EXCEPT ![n] = NewTimer]
          /\ except_pass(SetterRaises(timers, stop_recording_timer, idle),
                         "reset")
    /\ stop_recording_timer' = n

\* _on_starting_record and _on_recording_record: re-arm the timer only
OnRecordingRecord(c) ==
    /\ pc[c] = "reset"
    /\ kind[c] = "rearm"
    /\ reset_stop_recording_timer
    /\ LET k == cur[c] IN
       /\ trig' = [trig EXCEPT ![k].armed = now, ![k].how = "rearmed",
                               ![k].bin = record_bin]
       /\ seg' = IF record_bin # 0
                 THEN [seg EXCEPT ![record_bin].last = Max(@, now)]
                 ELSE seg
    /\ pc' = [pc EXCEPT ![c] = "poll"]
    /\ kind' = [kind EXCEPT ![c] = "none"]
    /\ UNCHANGED <<exit_code, bind_raised, cbVars, now, ringbuffer_bin, state, ringVars, binVars, drains, cleanups,
                   eoscbs, stack, cur, done>>

\* _on_buffering_record, up to the call of RecordBin.bind: arm the timer,
\* self.state = (self.state & ~BUFFERING) | STARTING
OnBufferingRecord(c) ==
    /\ pc[c] = "reset"
    /\ kind[c] = "buffering"
    /\ reset_stop_recording_timer
    /\ state' = (state \ BUFFERING) \cup STARTING
    /\ trig' = [trig EXCEPT ![cur[c]].armed = now]
    /\ pc' = [pc EXCEPT ![c] = "bind_check"]
    /\ UNCHANGED <<exit_code, bind_raised, cbVars, now, ringbuffer_bin, ringVars, binVars, drains, cleanups, eoscbs, stack,
                   kind, cur, seg, done>>

\* RecordBin.bind's guard `if self.pipeline: raise ValueError`
AlreadyBound == pipeline

\* _on_buffering_record evaluates self.framerate (AttributeError while it
\* is unset) and calls RecordBin.bind, whose first statement raises
\* ValueError("Already bound!") when self.pipeline is set
BindCheck(c) ==
    /\ pc[c] = "bind_check"
    /\ IF framerate = 0 \/ AlreadyBound
       THEN /\ Unwind(c, -1)
            /\ kind' = [kind EXCEPT ![c] = "none"]
       ELSE /\ pc' = [pc EXCEPT ![c] = "bind_attach"]
            /\ UNCHANGED <<stack, kind, cur, trig>>
    /\ UNCHANGED <<procVars, cbVars, now, ringbuffer_bin, recorderVars, ringVars, binVars, threadVars,
                   seg, done>>

\* the rest of RecordBin.bind: self.pipeline is set, __attach builds the
\* branch for the name filename_generator returns (a new name at each call)
\* and adds it to the pipeline, __link,
\* __connect_callbacks starts the drain thread and installs the probes;
\* back in _on_buffering_record, self.on_video_finished = on_video_finished
BindAttach(c) ==
    /\ pc[c] = "bind_attach"
    /\ LET b == nfiles + 1
           k == cur[c] IN
       /\ pipeline' = TRUE
       /\ record_bin' = b
       /\ bins' = [bins EXCEPT ![b] = [NoBin EXCEPT !.st = "attached"]]
       /\ drains' = [drains EXCEPT ![b] = [st |-> "start", wake |-> 0, buf |-> 0]]
       /\ trig' = [trig EXCEPT ![k].how = "opened", ![k].bin = b]
       /\ seg' = [seg EXCEPT ![b] = [first |-> trig[k].armed,
                                     last |-> trig[k].armed,
                                     eosAt |-> -1,
                                     full |-> Len(deque) = maxlen,
                                     eos |-> 0]]
    /\ on_video_finished' = IF trig[cur[c]].cb THEN cur[c] ELSE None
    /\ pc' = [pc EXCEPT ![c] = "poll"]
    /\ kind' = [kind EXCEPT ![c] = "none"]
    /\ UNCHANGED <<procVars, called, now, ringbuffer_bin, recorderVars, ringVars, pushing_buffers,
                   timers, cleanups, eoscbs, stack, cur, done>>

\* the statement of RecordBin.bind's try block that raises: parse_bin or
\* gst_add in __attach, sync_state_with_parent in __link, add_probe in
\* __connect_callbacks
Stages == {"parse", "add", "link", "connect"}

\* a plausible slip: the exception of the try block is logged and
\* on_failure is not called
BindAttachFailLogged(c, stage) ==
    /\ pc[c] = "bind_attach"
    /\ trig' = [trig EXCEPT ![cur[c]].how = "failed"]
    /\ pc' = [pc EXCEPT ![c] = "poll"]
    /\ UNCHANGED <<procVars, cbVars, now, ringbuffer_bin, recorderVars, ringVars, binVars,
                   threadVars, stack, kind, cur, seg, done>>

\* RecordBin.bind when its try block raises at `stage`: self.pipeline is
\* set; what was built up to there stays (the branch object from "add" on,
\* in the pipeline from "link" on, the drain thread started at "connect");
\* `except Exception`: logger.exception and on_failure(repr(exc)), which is
\* VideoRecorder._on_recordbin_bind_fail: the process exits.
BindAttachFail(c, stage) ==
    /\ pc[c] = "bind_attach"
    /\ LET b == nfiles + 1
           k == cur[c] IN
       /\ pipeline' = TRUE
       /\ IF stage = "parse"
          THEN UNCHANGED <<record_bin, bins, drains>>
          ELSE /\ record_bin' = b
               /\ bins' = [bins EXCEPT ![b] =
                      [NoBin EXCEPT !.st = IF stage = "add" THEN "built"
                                           ELSE "attached"]]
               /\ drains' = IF stage = "connect"
                            THEN [drains EXCEPT
                                    ![b] = [st |-> "start", wake |-> 0, buf |-> 0]]
                            ELSE drains
       /\ trig' = [trig EXCEPT ![k].how = "failed",
                               ![k].bin = IF stage = "parse" THEN 0 ELSE b]
    /\ on_bind_failure
    /\ pc' = [pc EXCEPT ![c] = "poll"]
    /\ UNCHANGED <<bind_raised, swallowed, cbVars, now, ringbuffer_bin, recorderVars,
                   ringVars, pushing_buffers, timers, cleanups, eoscbs,
                   stack, kind, cur, seg, done>>

\* record()'s timeout test, as written: (t0 - datetime.now()) > max_delay_sec
TimedOut(t0, tnow) == (t0 - tnow) > MaxDelay

\* one round of record()'s polling loop that ends the call: raise
\* TimeoutError, or return self.record_bin.filesink_location.  (A round in
\* which the property raises changes nothing and the loop goes round.)
Poll(c) ==
    /\ pc[c] = "poll"
    /\ IF TimedOut(Head(stack[c]), now)
       THEN Unwind(c, -1)
       ELSE HasLocation /\ Unwind(c, record_bin)
    /\ UNCHANGED <<procVars, cbVars, now, ringbuffer_bin, recorderVars, ringVars, binVars, threadVars,
                   kind, seg, done>>

\* -------------------------------------------------- the stop-recording timer
\* PostponedBackgroundThread.run: the sleep is over,
\* `if self._cancelled: return`.  A thread that passes
\* the test still holds WAITING in its state until its next statement.
TimerWake(i) ==
    /\ timers[i].st = "waiting"
    /\ now >= timers[i].due
    /\ timers' = [timers EXCEPT
           ![i].st = IF timers[i].cancelled THEN "cancelled" ELSE "woke",
           ![i].due = 0]
    /\ UNCHANGED <<procVars, cbVars, now, ringbuffer_bin, recorderVars, ringVars, binVars, drains,
                   cleanups, eoscbs, callerVars, histVars>>

\* __on_window_timeout's test `self.state not in (BUFFERING | RECORDING)`
Unhandled(st) == ~(st \subseteq (BUFFERING \cup RECORDING))

\* RecordBin.send_eos: send_event(self.record_bin, EOS); every exception is
\* swallowed by the `return` of its finally clause.  The event reaches a
\* branch that is in the pipeline and has not had one yet.
send_eos(bs) ==
    IF record_bin # 0 /\ bs[record_bin].st = "attached"
                      /\ bs[record_bin].eos = "no"
    THEN [bs EXCEPT ![record_bin].eos = "sent"]
    ELSE bs

\* state &= ~WAITING; state |= RUNNING; the callback __on_window_timeout:
\* NotImplementedError on an unhandled state (the thread fails); else
\* `self.stop_recording_timer = None` cancels the timer the field holds
\* (this very thread, which is running, unless a trigger replaced it);
\* then nothing more in BUFFERING, else the state becomes FINISHING and the
\* end of stream is sent
OnWindowTimeout(i) ==
    /\ timers[i].st = "woke"
    /\ IF Unhandled(state)
       THEN /\ timers' = [timers EXCEPT ![i].st = "failed"]
            /\ UNCHANGED <<stop_recording_timer, state, bins, seg, swallowed>>
       ELSE /\ \E idle \in BOOLEAN :
                LET running == [timers EXCEPT ![i].st = "running"] IN
                /\ timers' = [SetterCancel(running, stop_recording_timer, idle)
                                EXCEPT ![i].st = "succeeded"]
                /\ except_pass(
                       SetterRaises(running, stop_recording_timer, idle),
                       "timeout")
            /\ stop_recording_timer' = 0
            /\ IF state = BUFFERING
               THEN UNCHANGED <<state, bins, seg>>
               ELSE /\ state' = FINISHING
                    /\ bins' = send_eos(bins)
                    /\ seg' = IF record_bin # 0
                              THEN [seg EXCEPT
                                      ![record_bin].eos = @ + 1,
                                      ![record_bin].eosAt =
                                          IF bins' # bins THEN now ELSE @]
                              ELSE seg
    /\ UNCHANGED <<exit_code, bind_raised, cbVars, now, ringbuffer_bin, ringVars, pipeline, record_bin, pushing_buffers,
                   drains, cleanups, eoscbs, callerVars, trig, done>>

\* ------------------------------------------------------------ drain thread
\* appsrc_emit(self.appsrc, "push-buffer", x): the buffer enters the branch
\* self.record_bin names, if that branch is in the pipeline and has not
\* been sent its end of stream
push_buffer(bs, x) ==
    IF bs[record_bin].st = "attached" /\ bs[record_bin].eos = "no"
    THEN [bs EXCEPT ![record_bin].frames = Append(@, x)]
    ELSE bs

\* RecordBin.__emit_single and the sleep that follows it, in drain thread
\* b: pop the oldest frame and push it into self.appsrc (AttributeError
\* when record_bin is None: the thread dies), and sleep for the frame's
\* duration; on an empty deque, sleep for one frame period
emit_single(b) ==
    IF deque = <<>>
    THEN /\ drains' = [drains EXCEPT ![b] = [st |-> "sleep", wake |-> now + 1, buf |-> 0]]
         /\ UNCHANGED <<deque, bins>>
    ELSE /\ deque' = popleft(deque)
         /\ IF record_bin = 0
            THEN /\ drains' = [drains EXCEPT ![b] = [st |-> "failed", wake |-> 0, buf |-> 0]]
                 /\ UNCHANGED bins
            ELSE /\ drains' = [drains EXCEPT ![b] = [st |-> "sleep", wake |-> now + 1, buf |-> 0]]
                 /\ bins' = push_buffer(bins, Head(deque))

\* RecordBin.__emit_buffers_bg starts: self.pushing_buffers = True, and the
\* first round of its loop
EmitBuffersStart(b) ==
    /\ drains[b].st = "start"
    /\ pushing_buffers' = TRUE
    /\ emit_single(b)
    /\ UNCHANGED <<procVars, cbVars, now, ringbuffer_bin, tap, recorderVars, maxlen, framerate, sampling,
                   pipeline,
                   record_bin, timers, cleanups, eoscbs, callerVars,
                   histVars>>

\* a later round: after the sleep, `if not self.pushing_buffers: break`,
\* else __emit_single again
EmitBuffersLoop(b) ==
    /\ drains[b].st = "sleep"
    /\ now >= drains[b].wake
    /\ IF pushing_buffers
       THEN emit_single(b)
       ELSE /\ drains' = [drains EXCEPT ![b] = [st |-> "stopped", wake |-> 0, buf |-> 0]]
            /\ UNCHANGED <<deque, bins>>
    /\ UNCHANGED <<procVars, cbVars, now, ringbuffer_bin, tap, recorderVars, maxlen, framerate, sampling,
                   pipeline, record_bin, pushing_buffers, timers, cleanups,
                   eoscbs, callerVars, histVars>>

\* __emit_single is two statements, and nothing keeps the other threads, the
\* tap's included, from running between them: gstbuf = self.deque.popleft()
\* ...
EmitSinglePop(b) ==
    /\ \/ drains[b].st = "start"
       \/ drains[b].st = "sleep" /\ now >= drains[b].wake /\ pushing_buffers
    /\ deque # <<>>
    /\ pushing_buffers' = TRUE
    /\ deque' = popleft(deque)
    /\ drains' = [drains EXCEPT
                    ![b] = [st |-> "popped", wake |-> 0, buf |-> Head(deque)]]
    /\ UNCHANGED <<procVars, cbVars, now, ringbuffer_bin, tap, recorderVars,
                   maxlen, framerate, sampling, pipeline, record_bin, bins,
                   timers, cleanups, eoscbs, callerVars, histVars>>

\* ... and appsrc_emit(self.appsrc, "push-buffer", gstbuf), then the sleep
EmitSinglePush(b) ==
    /\ drains[b].st = "popped"
    /\ IF record_bin = 0
       THEN /\ drains' = [drains EXCEPT
                            ![b] = [st |-> "failed", wake |-> 0, buf |-> 0]]
            /\ UNCHANGED bins
       ELSE /\ drains' = [drains EXCEPT
                            ![b] = [st |-> "sleep", wake |-> now + 1,
                                    buf |-> 0]]
            /\ bins' = push_buffer(bins, drains[b].buf)
    /\ UNCHANGED <<procVars, cbVars, now, ringbuffer_bin, recorderVars,
                   ringVars, pipeline, record_bin, pushing_buffers, timers,
                   cleanups, eoscbs, callerVars, histVars>>

\* ------------------------------------------------ probes of the file sink
\* RecordBin.__on_first_frame_out: the first buffer reaches the file sink,
\* on_bind_sucess is VideoRecorder._on_recordbin_bound:
\* self.state = (self.state & ~STARTING) | RECORDING (what it raises next
\* is swallowed by the probe's finally clause)
OnFirstFrameOut(b) ==
    /\ bins[b].st = "attached"
    /\ ~bins[b].first
    /\ bins[b].frames # <<>>
    /\ bins' = [bins EXCEPT ![b].first = TRUE]
    /\ state' = (state \ STARTING) \cup RECORDING
    /\ UNCHANGED <<procVars, cbVars, now, ringbuffer_bin, stop_recording_timer, ringVars, pipeline,
                   record_bin, pushing_buffers, threadVars, callerVars,
                   histVars>>

\* RecordBin.__check_eos: the end of stream reaches the file sink of branch
\* b.  location is read from self.record_bin (None on AttributeError),
\* pushing_buffers is cleared, self.record_bin is removed from the
\* pipeline and the cleanup and on_eos threads are started; when the
\* removal raises, on_unbind_failure is called instead (what it raises is
\* swallowed) and no thread is started.
CheckEos(b) ==
    /\ bins[b].st = "attached"
    /\ bins[b].eos = "sent"
    /\ pushing_buffers' = FALSE
    /\ IF pipeline /\ record_bin # 0 /\ bins[record_bin].st = "attached"
       THEN /\ bins' = [bins EXCEPT ![b].eos = "seen",
                                    ![record_bin].st = "removed"]
            /\ cleanups' = cleanups + 1
            /\ eoscbs' = Append(eoscbs, record_bin)
       ELSE /\ bins' = [bins EXCEPT ![b].eos = "seen"]
            /\ UNCHANGED <<cleanups, eoscbs>>
    /\ UNCHANGED <<procVars, cbVars, now, ringbuffer_bin, recorderVars, ringVars, pipeline, record_bin,
                   timers, drains, callerVars, histVars>>

\* RecordBin.cleanup, in its run_later thread: set_state(NULL) on
\* self.record_bin (AttributeError on None: the thread fails), then
\* record_bin and pipeline are set to None
Cleanup ==
    /\ cleanups > 0
    /\ cleanups' = cleanups - 1
    /\ IF record_bin = 0
       THEN UNCHANGED <<record_bin, pipeline>>
       ELSE record_bin' = 0 /\ pipeline' = FALSE
    /\ UNCHANGED <<procVars, cbVars, now, ringbuffer_bin, recorderVars, ringVars, pushing_buffers,
                   bins, timers, drains, eoscbs, callerVars, histVars>>

\* VideoRecorder._on_recordbin_eos(location), in its run_later thread:
\* RECORDING counts as FINISHING, any other state but FINISHING raises
\* NotImplementedError, else the state becomes BUFFERING and
\* self.on_video_finished, if there is one, is started in a thread of its
\* own with the location (AttributeError while the attribute is unset)
OnRecordbinEos(n) ==
    /\ n \in DOMAIN eoscbs
    /\ eoscbs' = SubSeq(eoscbs, 1, n - 1) \o SubSeq(eoscbs, n + 1, Len(eoscbs))
    /\ IF state = RECORDING \/ state = FINISHING
       THEN /\ state' = BUFFERING
            /\ done' = Append(done, eoscbs[n])
            /\ called' = IF on_video_finished \in {Unset, None}
                          THEN called
                          ELSE Append(called, [cb |-> on_video_finished,
                                               location |-> eoscbs[n]])
       ELSE UNCHANGED <<state, done, called>>
    /\ UNCHANGED <<procVars, on_video_finished, now, ringbuffer_bin, stop_recording_timer, ringVars, binVars,
                   timers, drains, cleanups, callerVars, trig, seg>>

\* -------------------------------------------------------------------- time
\* some thread has a statement to run now; a caller at one of the places
\* `instant` runs on without a delay
Busy(instant) ==
    \/ Initializing
    \/ ringbuffer_bin.release \in {"waiting", "returned"}
    \/ \E c \in Callers :
          \/ pc[c] \in instant
          \/ pc[c] = "defer" /\ ~Deferring(state)
          \/ pc[c] = "poll" /\ (HasLocation \/ TimedOut(Head(stack[c]), now))
    \/ \E i \in TimerIds :
          \/ timers[i].st = "woke"
          \/ timers[i].st = "waiting" /\ now >= timers[i].due
    \/ \E b \in BinIds :
          \/ drains[b].st = "start"
          \/ drains[b].st = "sleep" /\ now >= drains[b].wake
    \/ cleanups > 0
    \/ eoscbs # <<>>

\* the handlers of record() take no time, RecordBin.bind included
Urgent == Busy({"reset", "bind_check", "bind_attach"})

\* __attach, __link and __connect_callbacks build and start a GStreamer
\* branch between RecordBin.bind's guard and its return, which may take
\* frame periods
UrgentSlowBind == Busy({"reset", "bind_check"})

\* one frame period passes, unless a thread has a statement to run now; the
\* tap delivers the frame of the new tick
tick(last, urgent) ==
    /\ now < last
    /\ ~urgent
    /\ now' = now + 1
    /\ IF sampling THEN OnNewSample(now + 1) ELSE UNCHANGED deque
    /\ UNCHANGED <<procVars, cbVars, ringbuffer_bin, tap, recorderVars,
                   maxlen, framerate, sampling, binVars,
                   threadVars, callerVars, histVars>>

Tick == tick(MaxTime, Urgent)
TickBurst == tick(BurstTime, Urgent)
TickSlowBind == tick(BurstTime, UrgentSlowBind)

Next ==
    \/ Tick
    \/ OnRingbufferBound
    \/ InitializeDequeDone
    \/ \E c \in Callers : Record(c)
    \/ \E c \in Callers : OnDeferredRecord(c)
    \/ \E c \in Callers : OnRecordingRecord(c)
    \/ \E c \in Callers : OnBufferingRecord(c)
    \/ \E c \in Callers : BindCheck(c)
    \/ \E c \in Callers : BindAttach(c)
    \/ \E c \in Callers : Poll(c)
    \/ \E i \in TimerIds : TimerWake(i)
    \/ \E i \in TimerIds : OnWindowTimeout(i)
    \/ \E b \in BinIds : EmitBuffersStart(b)
    \/ \E b \in BinIds : EmitBuffersLoop(b)
    \/ \E b \in BinIds : OnFirstFrameOut(b)
    \/ \E b \in BinIds : CheckEos(b)
    \/ Cleanup
    \/ \E n \in TrigIds : OnRecordbinEos(n)

Spec == Init /\ [][Next]_vars

\* the same recorder, every record() call carrying a callback
NextCallback ==
    \/ Tick
    \/ OnRingbufferBound
    \/ InitializeDequeDone
    \/ \E c \in Callers : RecordWithCallback(c)
    \/ \E c \in Callers : OnDeferredRecord(c)
    \/ \E c \in Callers : OnRecordingRecord(c)
    \/ \E c \in Callers : OnBufferingRecord(c)
    \/ \E c \in Callers : BindCheck(c)
    \/ \E c \in Callers : BindAttach(c)
    \/ \E c \in Callers : Poll(c)
    \/ \E i \in TimerIds : TimerWake(i)
    \/ \E i \in TimerIds : OnWindowTimeout(i)
    \/ \E b \in BinIds : EmitBuffersStart(b)
    \/ \E b \in BinIds : EmitBuffersLoop(b)
    \/ \E b \in BinIds : OnFirstFrameOut(b)
    \/ \E b \in BinIds : CheckEos(b)
    \/ Cleanup
    \/ \E n \in TrigIds : OnRecordbinEos(n)

SpecCallback == Init /\ [][NextCallback]_vars

\* the same recorder under a burst of record() calls
NextBurst ==
    \/ TickBurst
    \/ OnRingbufferBound
    \/ InitializeDequeDone
    \/ \E c \in Callers : RecordBurst(c)
    \/ \E c \in Callers : OnDeferredRecord(c)
    \/ \E c \in Callers : OnRecordingRecord(c)
    \/ \E c \in Callers : OnBufferingRecord(c)
    \/ \E c \in Callers : BindCheck(c)
    \/ \E c \in Callers : BindAttach(c)
    \/ \E c \in Callers : Poll(c)
    \/ \E i \in TimerIds : TimerWake(i)
    \/ \E i \in TimerIds : OnWindowTimeout(i)
    \/ \E b \in BinIds : EmitBuffersStart(b)
    \/ \E b \in BinIds : EmitBuffersLoop(b)
    \/ \E b \in BinIds : OnFirstFrameOut(b)
    \/ \E b \in BinIds : CheckEos(b)
    \/ Cleanup
    \/ \E n \in TrigIds : OnRecordbinEos(n)

SpecBurst == Init /\ [][NextBurst]_vars

\* the same recorder when building a branch takes time
NextSlowBind ==
    \/ TickSlowBind
    \/ OnRingbufferBound
    \/ InitializeDequeDone
    \/ \E c \in Callers : Record(c)
    \/ \E c \in Callers : OnDeferredRecord(c)
    \/ \E c \in Callers : OnRecordingRecord(c)
    \/ \E c \in Callers : OnBufferingRecord(c)
    \/ \E c \in Callers : BindCheck(c)
    \/ \E c \in Callers : BindAttach(c)
    \/ \E c \in Callers : Poll(c)
    \/ \E i \in TimerIds : TimerWake(i)
    \/ \E i \in TimerIds : OnWindowTimeout(i)
    \/ \E b \in BinIds : EmitBuffersStart(b)
    \/ \E b \in BinIds : EmitBuffersLoop(b)
    \/ \E b \in BinIds : OnFirstFrameOut(b)
    \/ \E b \in BinIds : CheckEos(b)
    \/ Cleanup
    \/ \E n \in TrigIds : OnRecordbinEos(n)

SpecSlowBind == Init /\ [][NextSlowBind]_vars

\* the same recorder, the two statements of __emit_single taken one at a
\* time: a thread that popped a frame may be kept from pushing it while
\* other threads run and frames arrive
NextSplit ==
    \/ TickBurst
    \/ OnRingbufferBound
    \/ InitializeDequeDone
    \/ \E c \in Callers : Record(c)
    \/ \E c \in Callers : OnDeferredRecord(c)
    \/ \E c \in Callers : OnRecordingRecord(c)
    \/ \E c \in Callers : OnBufferingRecord(c)
    \/ \E c \in Callers : BindCheck(c)
    \/ \E c \in Callers : BindAttach(c)
    \/ \E c \in Callers : Poll(c)
    \/ \E i \in TimerIds : TimerWake(i)
    \/ \E i \in TimerIds : OnWindowTimeout(i)
    \/ \E b \in BinIds : EmitBuffersStart(b)
    \/ \E b \in BinIds : EmitBuffersLoop(b)
    \/ \E b \in BinIds : EmitSinglePop(b)
    \/ \E b \in BinIds : EmitSinglePush(b)
    \/ \E b \in BinIds : OnFirstFrameOut(b)
    \/ \E b \in BinIds : CheckEos(b)
    \/ Cleanup
    \/ \E n \in TrigIds : OnRecordbinEos(n)

SpecSplit == Init /\ [][NextSplit]_vars

\* the same recorder with record() called from one application thread only
NextSolo ==
    \/ Tick
    \/ OnRingbufferBound
    \/ InitializeDequeDone
    \/ Record("c1")
    \/ OnDeferredRecord("c1")
    \/ OnRecordingRecord("c1")
    \/ OnBufferingRecord("c1")
    \/ BindCheck("c1")
    \/ BindAttach("c1")
    \/ Poll("c1")
    \/ \E i \in TimerIds : TimerWake(i)
    \/ \E i \in TimerIds : OnWindowTimeout(i)
    \/ \E b \in BinIds : EmitBuffersStart(b)
    \/ \E b \in BinIds : EmitBuffersLoop(b)
    \/ \E b \in BinIds : OnFirstFrameOut(b)
    \/ \E b \in BinIds : CheckEos(b)
    \/ Cleanup
    \/ \E n \in TrigIds : OnRecordbinEos(n)

SpecSolo == Init /\ [][NextSolo]_vars

\* the process runs until signal_handler's sys.exit
Alive == exit_code = 0

\* the recorder of one application thread in a pipeline where building the
\* output branch can fail
NextBindFail ==
    \/ Alive /\ Tick
    \/ Alive /\ OnRingbufferBound
    \/ Alive /\ InitializeDequeDone
    \/ Alive /\ Record("c1")
    \/ Alive /\ OnDeferredRecord("c1")
    \/ Alive /\ OnRecordingRecord("c1")
    \/ Alive /\ OnBufferingRecord("c1")
    \/ Alive /\ BindCheck("c1")
    \/ Alive /\ BindAttach("c1")
    \/ Alive /\ \E stage \in Stages : BindAttachFail("c1", stage)
    \/ Alive /\ Poll("c1")
    \/ Alive /\ \E i \in TimerIds : TimerWake(i)
    \/ Alive /\ \E i \in TimerIds : OnWindowTimeout(i)
    \/ Alive /\ \E b \in BinIds : EmitBuffersStart(b)
    \/ Alive /\ \E b \in BinIds : EmitBuffersLoop(b)
    \/ Alive /\ \E b \in BinIds : OnFirstFrameOut(b)
    \/ Alive /\ \E b \in BinIds : CheckEos(b)
    \/ Alive /\ Cleanup
    \/ Alive /\ \E n \in TrigIds : OnRecordbinEos(n)

SpecBindFail == Init /\ [][NextBindFail]_vars

\* ------------------------------------------------- the ring buffer on its own
\* self.deque.popleft() of RecordBin.__emit_single, on a deque that holds
\* a frame
PopLeft ==
    /\ deque # <<>>
    /\ deque' = popleft(deque)
    /\ UNCHANGED <<procVars, cbVars, now, ringbuffer_bin, tap, recorderVars, maxlen, framerate, sampling,
                   binVars, threadVars, callerVars, histVars>>

\* the ring buffer of a recorder nobody triggers, on any tap: bound at the
\* first buffer or failing to, bound again by the application, filled by
\* the tap, emptied from the left
NextRing ==
    \/ Tick
    \/ OnRingbufferBound
    \/ InitializeDequeDone
    \/ InitializeDequeFail
    \/ RingBufferBind
    \/ PopLeft

SpecRing == InitRing /\ [][NextRing]_vars

\* ------------------------------------------------- end of stream of the tap
\* send_event(self.pipeline, Gst.Event.new_eos()): the event is handed to
\* the sources of the pipeline, the appsrc of every output branch in it
pipeline_eos(bs) ==
    [b \in BinIds |->
        IF bs[b].st = "attached" /\ bs[b].eos = "no"
        THEN [bs[b] EXCEPT !.eos = "sent"]
        ELSE bs[b]]

\* a plausible slip: the probe releases the bin itself, on the delivery
\* thread, and calls on_eos
TapEosSync ==
    /\ ringbuffer_bin.st = "attached"
    /\ ~Initializing
    /\ ringbuffer_bin' = [st |-> "released", release |-> "none", on_eos |-> 1]
    /\ sampling' = FALSE
    /\ bins' = pipeline_eos(bins)
    /\ UNCHANGED <<procVars, cbVars, now, tap, recorderVars, deque, maxlen,
                   framerate, pipeline, record_bin, pushing_buffers,
                   threadVars, callerVars, histVars>>

\* RingBuffer.__appsink_eos_probe, on the tap's delivery thread (which is
\* not inside __initialize_deque then): the end of stream reaches the
\* appsink; the bin is removed from the pipeline, the thread that runs
\* __release_ringbuffer_bin is started with on_success = on_eos, and an end
\* of stream is sent to the pipeline.  No further sample is delivered.
TapEos ==
    /\ ringbuffer_bin.st = "attached"
    /\ ~Initializing
    /\ ringbuffer_bin' = [ringbuffer_bin EXCEPT !.st = "removed",
                                                !.release = "waiting"]
    /\ sampling' = FALSE
    /\ bins' = pipeline_eos(bins)
    /\ UNCHANGED <<procVars, cbVars, now, tap, recorderVars, deque, maxlen,
                   framerate, pipeline, record_bin, pushing_buffers,
                   threadVars, callerVars, histVars>>

\* RingBuffer.__release_ringbuffer_bin, in its thread: set_state(NULL) and
\* self.ringbuffer_bin = None; the callback returns
ReleaseRingbufferBin ==
    /\ ringbuffer_bin.release = "waiting"
    /\ ringbuffer_bin' = [ringbuffer_bin EXCEPT !.st = "released",
                                                !.release = "returned"]
    /\ UNCHANGED <<procVars, cbVars, now, recorderVars, ringVars, binVars,
                   threadVars, callerVars, histVars>>

\* ... or set_state raises RuntimeError on a failed state change: the thread
\* fails, its on_failure is logger.error, and on_success is not called
ReleaseRingbufferBinFail ==
    /\ ringbuffer_bin.release = "waiting"
    /\ ringbuffer_bin' = [ringbuffer_bin EXCEPT !.release = "failed"]
    /\ UNCHANGED <<procVars, cbVars, now, recorderVars, ringVars, binVars,
                   threadVars, callerVars, histVars>>

\* PostponedBackgroundThread.run after the callback: SUCCEEDED, and
\* on_success(output) is RingBuffer.on_eos = VideoRecorder._on_ringbuffer_eos,
\* which sends an end of stream to the pipeline
OnRingbufferEos ==
    /\ ringbuffer_bin.release = "returned"
    /\ ringbuffer_bin' = [ringbuffer_bin EXCEPT !.release = "succeeded",
                                                !.on_eos = @ + 1]
    /\ bins' = pipeline_eos(bins)
    /\ UNCHANGED <<procVars, cbVars, now, recorderVars, ringVars, pipeline,
                   record_bin, pushing_buffers, threadVars, callerVars,
                   histVars>>

\* the ring buffer of a recorder nobody triggers, on a tap that ends
NextEos ==
    \/ Tick
    \/ OnRingbufferBound
    \/ InitializeDequeDone
    \/ InitializeDequeFail
    \/ RingBufferBind
    \/ PopLeft
    \/ TapEos
    \/ ReleaseRingbufferBin
    \/ ReleaseRingbufferBinFail
    \/ OnRingbufferEos

SpecEos == InitRing /\ [][NextEos]_vars

\* ------------------------------------------------------- attribute lookup
\* the properties the class VideoRecorder defines
Properties == {"state", "deque", "stop_recording_timer"}

\* getattr(recorder, name) for a property of the class, and for a name
\* that neither the class defines nor __init__ assigns (the class has no
\* __getattr__): AttributeError
getattr(name) ==
    IF name \in Properties
    THEN [raised |-> FALSE,
          value |-> CASE name = "state" -> state
                      [] name = "deque" -> deque
                      [] name = "stop_recording_timer" -> stop_recording_timer]
    ELSE [raised |-> TRUE, value |-> "AttributeError"]

\* ------------------------------------------------------------------ history
\* the record() call of trigger k has ended
Over(k) == trig[k].how # "none" /\ \A c \in Callers : cur[c] # k

\* the output branches that are in the pipeline
Bound == {b \in BinIds : bins[b].st = "attached"}

\* ------------------------------------------------------------------- claims
\* C1: in every reachable state at most one writer session (output branch)
\* is bound to the recorder.
C1_AtMostOneSessionBound == Cardinality(Bound) <= 1

\* the record() call of trigger k returned a location
Returned(k) == Over(k) /\ trig[k].ret > 0

\* trigger k opened a segment or re-armed the timer of the active one
Honoured(k) == trig[k].how \in {"opened", "rearmed"}

\* the file of branch b is complete: its end of stream reached the sink
Finished(b) == bins[b].eos = "seen"

Last(q) == q[Len(q)]

\* C2: N triggers, each issued less than 2w after the preceding one, give
\* exactly one output file: once all their record() calls have returned,
\* one branch has been built and at most one completion delivered.
C2_CoalescedTriggersOneFile ==
    (/\ ntrig >= 2
     /\ \A k \in TrigIds : trig[k].how # "none" =>
            /\ Returned(k)
            /\ (k > 1 => trig[k].t - trig[k - 1].t < 2 * W))
    => nfiles = 1 /\ Len(done) <= 1

\* C3: the finished file of a segment opened (with a full ring) by a
\* trigger at t_first and last extended at t_last holds the frames from
\* t_first - w to t_last + w, give or take one frame at either end.
C3_FileSpansWindow ==
    \A b \in BinIds : Finished(b) /\ seg[b].full =>
        LET f == bins[b].frames IN
        /\ f # <<>>
        /\ Head(f) \in {seg[b].first - W, seg[b].first - W + 1}
        /\ Last(f) \in {seg[b].last + W - 1, seg[b].last + W,
                        seg[b].last + W + 1}
        /\ \A i \in 1..(Len(f) - 1) : f[i + 1] = f[i] + 1

\* C4: two consecutive triggers more than 2w apart give two files: when
\* the first opened a segment whose file is complete, the second was
\* issued more than 2w after the first was served and both calls have
\* returned, the second opened another segment.
C4_SeparatedTriggersTwoFiles ==
    \A k \in TrigIds :
        (/\ k + 1 \in TrigIds
         /\ Returned(k) /\ Returned(k + 1)
         /\ trig[k].how = "opened" /\ Finished(trig[k].bin)
         /\ trig[k + 1].t - trig[k].armed > 2 * W)
        => /\ trig[k + 1].how = "opened"
           /\ trig[k + 1].bin # trig[k].bin

\* C5: a trigger issued while the recorder is FINISHING is not lost: when
\* its record() call is over, it has opened a new segment (or has been
\* coalesced into one opened meanwhile).
C5_FinishingTriggerHonoured ==
    \A k \in TrigIds :
        Over(k) /\ trig[k].at = FINISHING => Honoured(k)

\* C6: no trigger is silently dropped: the end of stream of the segment a
\* trigger at time t opened or extended is not sent before t + 2w.
C6_NoTriggerDropped ==
    \A k \in TrigIds :
        (Honoured(k) /\ trig[k].bin # 0 /\ seg[trig[k].bin].eosAt # -1)
            => seg[trig[k].bin].eosAt >= trig[k].t + 2 * W

\* C7: record() does not go on polling for a location beyond max_delay_sec
\* after the call: no time passes while a call that began more than
\* max_delay_sec ago is in its polling loop, it raises its timeout at once.
C7_PollingBounded ==
    [][\A c \in Callers :
          (pc[c] = "poll" /\ now - Head(stack[c]) > MaxDelay) => now' = now]_vars

\* C8: record() returns the location of the segment its trigger opened or
\* was coalesced into.
C8_ReturnsOwnSegment ==
    \A k \in TrigIds : Returned(k) =>
        /\ Honoured(k)
        /\ (trig[k].bin # 0 => trig[k].ret = trig[k].bin)

\* C9: the re-dispatches of a record() call made while the recorder is
\* DETTACHED stop within a retry window: the caller is not still retrying
\* more than max_delay_sec (plus one tick) after its call.
C9_DetachedRetriesBounded ==
    \A c \in Callers :
        pc[c] = "defer" /\ state = DETTACHED
            => now - Last(stack[c]) <= MaxDelay + 1

\* C10: the recorder has an attribute busy, which is true exactly when the
\* state is not BUFFERING.
C10_BusyIffNotBuffering ==
    LET busy == getattr("busy") IN
    /\ ~busy.raised
    /\ (busy.value = TRUE <=> state # BUFFERING)

\* C11: for every window size w and tap framerate num/den the ring the
\* recorder creates has capacity ceil(w * num/den), the least n with
\* n >= w * num/den; w = 2 s at 30 frames per second gives 60.
C11_CapacityIsCeil ==
    maxlen # 0 =>
        /\ maxlen * tap.den >= tap.w * tap.num
        /\ (maxlen - 1) * tap.den < tap.w * tap.num
        /\ tap = ScenarioA => maxlen = 60

\* a ring has been created on a tap where w * num/den is no integer
C11_RoundedUp == maxlen # 0 /\ (tap.w * tap.num) % tap.den # 0

\* a frame was appended in this step (frames are told apart by their tick)
Pushed == deque' # <<>> /\ (deque = <<>> \/ Last(deque') # Last(deque))

\* C12: the ring never holds more frames than its capacity, and a push keeps
\* the frames it held in order, less exactly the oldest one when it was full.
C12_RingWithinCapacity ==
    /\ [](Len(deque) <= maxlen)
    /\ [][Pushed =>
            SubSeq(deque', 1, Len(deque') - 1)
              = SubSeq(deque, IF Len(deque) >= maxlen THEN 2 ELSE 1,
                       Len(deque))]_vars

\* a full ring of capacity 2 or more that has lost frames older than it holds
C12_FullRing ==
    /\ maxlen >= 2 /\ Len(deque) = maxlen
    /\ Last(deque) = now /\ Head(deque) = now - maxlen + 1 /\ Head(deque) > 1

\* C13: the recorder's state is always exactly one of Detached, Buffering,
\* Starting, Recording and Finishing, never a combination of their flags.
C13_StateIsOneOfFive == state \in States

\* the invocations of trigger k's callback with the location of branch b
Calls(k, b) == {i \in DOMAIN called : called[i] = [cb |-> k, location |-> b]}

\* C14: once the file of a segment is complete and its completion handled,
\* the recorder has gone back to Buffering for it and the callback of the
\* trigger that opened it has been started exactly once, with the location
\* of that segment, and no other callback has been given that location.
C14_FinishedCallbackOnce ==
    \A b \in BinIds : \A k \in TrigIds :
        (/\ Finished(b) /\ eoscbs = <<>>
         /\ trig[k].how = "opened" /\ trig[k].bin = b /\ trig[k].cb)
        => /\ \E i \in DOMAIN done : done[i] = b
           /\ Cardinality(Calls(k, b)) = 1
           /\ \A i \in DOMAIN called : called[i].location = b => called[i].cb = k

\* nothing is left that could change the recorder's state short of a new
\* trigger: no record() call is active, no timer is pending, no cleanup or
\* completion thread is waiting to run, and every branch in the pipeline
\* has delivered its first output and has no end of stream on its way
Quiet ==
    /\ \A c \in Callers : pc[c] = "idle"
    /\ \A i \in TimerIds : timers[i].st \notin {"waiting", "woke"}
    /\ cleanups = 0 /\ eoscbs = <<>>
    /\ \A b \in BinIds :
          bins[b].st = "attached" => bins[b].first /\ bins[b].eos = "no"

\* C15: Starting, Recording and Finishing are no terminal states: the
\* recorder is in none of them once every scheduled thread has run and every
\* branch has delivered what it had to deliver.
C15_NoTerminalSession ==
    Quiet => state \notin {STARTING, RECORDING, FINISHING}

\* C16: a RingBuffer.bind that cannot succeed fails without binding.  On a
\* tap without a framerate on_bound is never invoked (no deque is created),
\* the recorder stays Detached and the only outcome is the fatal exit; a
\* bind on the bound ring buffer raises and leaves ring and recorder as
\* they were.
C16_BindFailureLeavesDetached ==
    /\ [](~get_fraction(tap).success =>
             state = DETTACHED /\ maxlen = 0 /\ exit_code \in {0, ExitCode})
    /\ [](exit_code # 0 => ~get_fraction(tap).success)
    /\ [][bind_raised' # bind_raised =>
             UNCHANGED <<state, deque, maxlen, framerate, sampling,
                         exit_code>>]_vars

\* both failures have happened: the first buffer of a tap without framerate
\* has been seen and a second bind has been refused
C16_BothFailures ==
    ~get_fraction(tap).success /\ exit_code = ExitCode /\ bind_raised > 0

\* caller c's bind is refused in this step: RecordBin.bind raises
\* ValueError("Already bound!")
Refused(c) ==
    pc[c] = "bind_check" /\ framerate # 0 /\ AlreadyBound
        /\ pc'[c] # "bind_check"

\* caller c's bind goes through in this step
Attaches(c) == pc[c] = "bind_attach" /\ pc'[c] # "bind_attach"

\* C17: a bind while a session is bound is rejected, the failure reaches
\* the owner (the process exits, or the record() call of the application
\* ends with the error) and the bound session is as it was; a bind that
\* goes through finds no session bound.
C17_SecondBindRejected ==
    [][\A c \in Callers :
          /\ Refused(c) =>
                /\ UNCHANGED binVars
                /\ \/ exit_code' # 0
                   \/ pc'[c] = "idle" /\ trig'[cur[c]].ret = -1
          /\ Attaches(c) => ~pipeline /\ Bound = {}]_vars

\* C18: a CancelNotInWaiting raised while the recorder re-arms its timer
\* is surfaced, never dropped without a trace.
C18_CancelErrorSurfaced == "reset" \notin swallowed

\* record_bg looks the state up in this step: a call of the application,
\* or the re-dispatch of a deferred call
Dispatches ==
    \/ ntrig' # ntrig
    \/ \E c \in Callers :
          pc[c] = "defer" /\ <<pc[c], stack[c]>>' # <<pc[c], stack[c]>>

\* C19: record() never meets a state without a handler: whenever record_bg
\* looks the state up in on_record_dispatch, the state is one of the five
\* keys of the table.
C19_DispatchFindsHandler == [][Dispatches => state \in States]_vars

\* the timers of tm whose callback is still to run: waiting and not
\* cancelled, or past the test of the cancellation flag
WillFire(tm) ==
    {i \in TimerIds :
        \/ tm[i].st = "woke"
        \/ tm[i].st = "waiting" /\ ~tm[i].cancelled}

\* caller c's handler re-arms the timer in this step
Rearms(c) == pc[c] = "reset" /\ pc'[c] # "reset"

\* C20: a trigger handled in Buffering, Starting or Recording re-arms the
\* timer: after the handler the only timer that will still fire is the new
\* one, and it is due 2 * window_size_sec after the trigger.
C20_RearmLeavesOneTimer ==
    [][\A c \in Callers :
          (Rearms(c) /\ trig[cur[c]].at \in {BUFFERING, STARTING, RECORDING})
          => LET n == stop_recording_timer' IN
             /\ WillFire(timers') = {n}
             /\ timers'[n].due = trig[cur[c]].t + 2 * W]_vars

\* the callback of timer i has run (to its end or to an exception)
Ran(i) == timers[i].st \in {"succeeded", "failed"}

\* C21: a timer whose cancel() returned without raising never runs its
\* callback.
C21_CancelledNeverRuns ==
    \A i \in TimerIds : timers[i].cancelled => ~Ran(i)

\* C22: whenever the recorder is Buffering no writer session is bound: the
\* RecordBin's pipeline reference is cleared and no cleanup is still to
\* run, so that a bind attempted now goes through.
C22_BufferingMeansUnbound ==
    state = BUFFERING => ~AlreadyBound /\ cleanups = 0

\* the callback of timer i runs in this step
Fires(i) == timers[i].st = "woke" /\ timers'[i].st # "woke"

\* C23: when the timer of the only trigger fires, then in Buffering nothing
\* happens (same state, no end of stream sent); otherwise the state moves
\* from Recording to Finishing and the end of stream is sent to the bound
\* session.
C23_TimeoutEndsSegment ==
    [][\A i \in TimerIds :
          (Fires(i) /\ ntrig = 1 /\ ntimers = 1) =>
              IF state = BUFFERING
              THEN UNCHANGED <<state, bins>>
              ELSE /\ state = RECORDING /\ state' = FINISHING
                   /\ record_bin # 0
                   /\ bins[record_bin].eos = "no"
                   /\ bins'[record_bin].eos = "sent"]_vars

\* C24: the timer callback only ever runs while the recorder is Recording
\* or Buffering, so its "Unhandled state" branch is never taken: no timer
\* fires in Starting or Finishing and none ends with an exception.
C24_TimeoutOnlyInHandledStates ==
    /\ [][\A i \in TimerIds :
            Fires(i) => state \in {BUFFERING, RECORDING}]_vars
    /\ [](\A i \in TimerIds : timers[i].st # "failed")

\* caller c runs _on_buffering_record: its trigger was dispatched in
\* Buffering
InBufferingRecord(c) ==
    kind[c] = "buffering" /\ pc[c] \in {"reset", "bind_check", "bind_attach"}

\* C25: a trigger dispatched in Buffering arms the timer and moves the
\* state to Starting, then binds exactly one new session: its bind is not
\* refused, it builds one branch, and the state is Starting from the
\* handler's assignment until the bind has gone through.
C25_BufferingTriggerBindsOne ==
    /\ [][\A c \in Callers : InBufferingRecord(c) =>
             /\ (pc[c] = "reset" /\ pc'[c] # "reset") =>
                    ntimers' = ntimers + 1 /\ state' = STARTING
             /\ (pc[c] = "bind_check" /\ pc'[c] # "bind_check") =>
                    pc'[c] = "bind_attach"
             /\ Attaches(c) => nfiles' = nfiles + 1]_vars
    /\ [](\A c \in Callers :
             (InBufferingRecord(c) /\ pc[c] # "reset") => state = STARTING)

\* caller c runs _on_starting_record or _on_recording_record in this step
RearmOnly(c) == pc[c] = "reset" /\ kind[c] = "rearm" /\ pc'[c] # "reset"

\* C26: a trigger dispatched in Starting or Recording reaches the handler
\* that re-arms the timer, and that handler does nothing else: a new timer
\* is waiting in the recorder's field while the state, the bound session,
\* its location and the ring buffer are as they were and no branch is built.
C26_RearmOnly ==
    [][/\ (Dispatches /\ state \in {STARTING, RECORDING}) =>
              \E c \in Callers :
                  pc[c] # "reset" /\ pc'[c] = "reset" /\ kind'[c] = "rearm"
       /\ \A c \in Callers : RearmOnly(c) =>
              /\ stop_recording_timer' # stop_recording_timer
              /\ timers'[stop_recording_timer'].st = "waiting"
              /\ UNCHANGED <<state, binVars, deque>>
              /\ nfiles' = nfiles]_vars

\* the drain threads that are in the loop of __emit_buffers_bg: each pops
\* the deque at its next round
Popping == {b \in BinIds : drains[b].st = "sleep"}

\* C27: the ring buffer has one consumer: at most one drain thread is in
\* its popping loop at any instant, the drain thread of a finished session
\* having stopped before that of the next session makes its first pop.
C27_SingleConsumer == Cardinality(Popping) <= 1

\* the stop_recording_timer setter runs on timer i in this step: the field
\* held i and is given another value
SetterOn(i) == stop_recording_timer = i /\ stop_recording_timer' # i

\* the name under which the setter's `except CancelNotInWaiting: pass` is
\* recorded in this step: the setter is run by a timer's callback or by
\* reset_stop_recording_timer
SetterOp == IF \E j \in TimerIds : Fires(j) THEN "timeout" ELSE "reset"

\* timer i holds WAITING in its state when the setter of this step reaches
\* it (the thread whose callback runs the setter has left its waiting phase)
InWaiting(i) == timers[i].st \in {"waiting", "woke"} /\ ~Fires(i)

\* C28: a cancel() on a timer that is not in its waiting phase raises
\* CancelNotInWaiting and changes nothing: whenever the setter cancels timer
\* i, either i was waiting and takes the cancellation, or the error is
\* raised, the cancellation flag of i is as before and the thread of i is
\* where it was (or goes on with the callback it is running).
C28_CancelOutsideWaitingRejected ==
    [][\A i \in TimerIds : SetterOn(i) =>
          \/ InWaiting(i) /\ timers'[i].cancelled
          \/ /\ SetterOp \in swallowed'
             /\ timers'[i].cancelled = timers[i].cancelled
             /\ IF Fires(i) THEN Ran(i)' ELSE timers'[i].st = timers[i].st]_vars

\* a cancel() was rejected on a timer that had failed, and one on the timer
\* whose callback was running
C28_RejectedAfterFailure ==
    /\ {"reset", "timeout"} \subseteq swallowed
    /\ \E i \in TimerIds : timers[i].st = "failed" /\ stop_recording_timer # i

\* C29: the end of stream is sent at most once to each session, whatever
\* the timers do.
C29_EosSentOnce == \A b \in BinIds : seg[b].eos <= 1

\* the locations handed to on_eos so far: callbacks started, run, and the
\* ones that reached the application's callback
Reported ==
    {eoscbs[i] : i \in DOMAIN eoscbs} \cup {done[i] : i \in DOMAIN done}
        \cup {called[i].location : i \in DOMAIN called}

\* C30: a branch is taken out of the pipeline, and its location given to
\* on_finished, only after the end of stream that send_eos pushed into it
\* was seen at its file sink.
C30_RemovedOnlyAfterEos ==
    \A b \in BinIds :
        (bins[b].st = "removed" \/ b \in Reported) =>
            bins[b].eos = "seen" /\ seg[b].eos >= 1

\* on_bind_sucess of branch b is called in this step: the probe
\* __on_first_frame_out runs
FirstOutput(b) == ~bins[b].first /\ bins'[b].first

\* C31: the first output of a session is reported once, and that report,
\* not the return of the bind, is what takes the recorder from Starting to
\* Recording: it finds the state Starting and leaves it Recording, and the
\* state becomes Recording in no other step.
C31_FirstOutputStartsRecording ==
    [][/\ \A b \in BinIds :
             /\ FirstOutput(b) => state = STARTING /\ state' = RECORDING
             /\ bins[b].first => bins'[b].first
       /\ (state # RECORDING /\ state' = RECORDING) =>
              \E b \in BinIds : FirstOutput(b)]_vars

\* the bind of caller c fails in this step
BindFails(c) == pc[c] = "bind_attach" /\ trig'[cur[c]].how = "failed"

C33_TeardownThenEos ==
    /\ [][/\ (ringbuffer_bin.st # "released"
                  /\ ringbuffer_bin'.st = "released") =>
                ringbuffer_bin.st = "removed"
                    /\ ringbuffer_bin.release = "waiting"
          /\ ringbuffer_bin'.on_eos # ringbuffer_bin.on_eos =>
                /\ ringbuffer_bin.st = "released"
                /\ ringbuffer_bin.release = "returned"
                /\ ringbuffer_bin.on_eos = 0]_vars
    /\ [](ringbuffer_bin.on_eos =
              IF ringbuffer_bin.release = "succeeded" THEN 1 ELSE 0)

\* the tap ended after it had filled the ring, the bin was released and
\* on_eos called
C33_EosAfterFullRing ==
    /\ ringbuffer_bin.on_eos = 1
    /\ ringbuffer_bin.st = "released"
    /\ maxlen # 0 /\ Len(deque) = maxlen

\* which threads are started with an on_failure: the timer
\* (run_later(self.__on_window_timeout, delay)) and the drain thread
\* (run_later(self.__emit_buffers_bg, 0)) without, the release thread of
\* the ingest bin with on_failure = logger.error
on_failure ==
    [timer |-> FALSE, drain |-> FALSE, release |-> TRUE]

\* PostponedBackgroundThread.run, `except Exception`: the state gets FAILED;
\* with an on_failure it is called with the exception, without one the
\* exception is logged and raised again, out of run()
Reraised(thread, st) == st = "failed" /\ ~on_failure[thread]

\* C34: an exception raised in a background thread stops at the thread's
\* run(): no thread that failed has raised its exception again.
C34_ExceptionsContained ==
    /\ \A i \in TimerIds : ~Reraised("timer", timers[i].st)
    /\ \A b \in BinIds : ~Reraised("drain", drains[b].st)
    /\ ~Reraised("release", ringbuffer_bin.release)

\* C35: the state of the recorder changes along Detached -> Buffering ->
\* Starting -> Recording -> Finishing -> Buffering, and in no other way.
C35_OnlyTheFiveTransitions ==
    [][state' # state =>
          <<state, state'>> \in {<<DETTACHED, BUFFERING>>,
                                 <<BUFFERING, STARTING>>,
                                 <<STARTING, RECORDING>>,
                                 <<RECORDING, FINISHING>>,
                                 <<FINISHING, BUFFERING>>}]_vars

\* the frames pushed into branch b, oldest first, are in the order the tap
\* delivered them (a frame is named by the instant of its delivery)
InTapOrder(b) ==
    \A m, n \in DOMAIN bins[b].frames :
        m < n => bins[b].frames[m] < bins[b].frames[n]

FramesOf(b) == {bins[b].frames[n] : n \in DOMAIN bins[b].frames}

\* C36: every branch gets its frames in the order of the tap, none twice,
\* and no frame is pushed into two branches.
C36_FramesInOrderOnce ==
    /\ \A b \in BinIds : InTapOrder(b)
    /\ \A b, d \in BinIds : b # d => FramesOf(b) \cap FramesOf(d) = {}

\* a thread started by run_later(self.on_eos, 0, location) runs
\* VideoRecorder._on_recordbin_eos in this step
Completes == Len(eoscbs') < Len(eoscbs)

\* C37: the completion of a session finds the recorder RECORDING or
\* FINISHING: _on_recordbin_eos never raises its "Unhandled state".
C37_CompletionInRecordingOrFinishing ==
    [][Completes => state = RECORDING \/ state = FINISHING]_vars

\* C38: outside DETTACHED the deque and the framerate are set and the
\* ring buffer takes the tap's frames, so that no record() reaches
\* RecordBin.bind while the framerate is unset.
C38_BufferingMeansInitialised ==
    /\ state # DETTACHED => maxlen # 0 /\ framerate # 0 /\ sampling
    /\ \A c \in Callers : pc[c] = "bind_check" => framerate # 0

\* a frame leaves the ring at its left end in this step: popleft is the one
\* operation that makes the deque shorter
Pops == Len(deque') < Len(deque)

\* drain thread b took this step
Drains(b) == drains'[b] # drains[b]

\* C39: a frame the drain thread of a session pops is pushed into the
\* branch of that session: nothing is popped once the branch has been sent
\* its end of stream or has been removed.
C39_PoppedFramesArePushed ==
    [][Pops => \E b \in BinIds :
                  /\ Drains(b)
                  /\ bins'[b].frames = Append(bins[b].frames, Head(deque))]_vars

====
